---- MODULE Spec2Model ----
(***************************************************************************)
(* A model of the reverse proxy of src/server/server.go (package rproxy):  *)
(* RProxy.Start, the accept loops startTCP / startTLS, the per-connection  *)
(* task serve -> serveTCP / serveTLS, and the two io.Copy loops of a       *)
(* Session, together with the two peers of each Session (the client on the *)
(* front connection and the backend server on the dialed connection).      *)
(* A second specification models the test backend of the same file         *)
(* (package main): main, handleConn, read and write.                       *)
(***************************************************************************)
EXTENDS Integers, Sequences, FiniteSets, TLC

VARIABLES
    config,     \* the RProxy struct and the files / address it names
    proc,       \* the process: "init", "accepting", "panicked", "exited"
    crashAt,    \* the function whose panic / log.Fatalf ended the process
    loopWait,   \* the Session the accept loop waits for (0: none)
    acceptErrs, \* the accept errors logged so far
    sess,       \* the Sessions, one per accepted connection, in accept order
    harness     \* the test backend: its process, console input, connections

vars == <<config, proc, crashAt, loopWait, acceptErrs, sess, harness>>

----------------------------------------------------------------------------
(* Bounds of the model. *)

\* returns of Accept, with a connection or with an error
MaxAccepts == 2
\* events at the peers, all Sessions together: a byte sent, a connection closed
MaxPeerEvents == 3
\* largest number of bytes one Read of a copy loop returns
MaxChunk == 2
\* connections the test backend accepts
MaxHarnessConns == 2
\* lines typed on the console of the test backend
MaxLines == 2
\* messages the peer of one connection sends to the test backend
MaxPeerMsgs == 1

----------------------------------------------------------------------------
(* Helpers. *)

Min(a, b) == IF a < b THEN a ELSE b

IsPrefix(p, q) == Len(p) <= Len(q) /\ SubSeq(q, 1, Len(p)) = p

Take(q, n) == SubSeq(q, 1, n)

Drop(q, n) == SubSeq(q, n + 1, Len(q))

\* the bytes the client of Session i sends, and the bytes its backend sends:
\* all distinct, so that a byte names its Session, its direction and its place
FrontPayload(i) == [k \in 1..MaxPeerEvents |-> 100 * i + k]

BackPayload(i) == [k \in 1..MaxPeerEvents |-> 100 * i + 50 + k]

----------------------------------------------------------------------------
(* Configuration: NewRProxy's arguments (lower-cased protocols) and the    *)
(* state of what they name: the root PEM file, the two key pairs, the      *)
(* listen address.                                                         *)

Protos == {"tcp", "tls", "udp"}

AllConfigs ==
    [listenProto : Protos, backendProto : Protos,
     rootCert : {"ok", "unreadable", "unparseable"},
     serverPair : {"ok", "bad"}, clientPair : {"ok", "bad"},
     listenAddr : {"ok", "unusable"}]

Defects(c) ==
    {f \in {"listenProto", "backendProto"} : c[f] = "udp"}
        \cup {f \in {"rootCert", "serverPair", "clientPair", "listenAddr"} : c[f] # "ok"}

\* what the configured protocols make the proxy use
Used(c) ==
    {"listenProto", "backendProto", "listenAddr"}
        \cup (IF c.listenProto = "tls" THEN {"rootCert", "serverPair"} ELSE {})
        \cup (IF c.backendProto = "tls" THEN {"rootCert", "clientPair"} ELSE {})

\* the configurations explored: at most one thing wrong, in something used
Configs ==
    {c \in AllConfigs : Cardinality(Defects(c)) <= 1 /\ Defects(c) \subseteq Used(c)}

----------------------------------------------------------------------------
(* Start: the listen-side switch and startTCP / startTLS up to the loop.   *)

\* startTCP up to its accept loop
StartTCPOutcome(c) ==
    IF c.listenAddr # "ok" THEN "panicked"      \* ResolveTCPAddr / ListenTCP
    ELSE "accepting"

\* a startTLS that goes on without a usable server key pair
StartTLSNoKeyPairCheck(c) ==
    IF c.rootCert # "ok" THEN "panicked"
    ELSE IF c.listenAddr # "ok" THEN "panicked"
    ELSE "accepting"

\* startTLS up to its accept loop
StartTLSOutcome(c) ==
    IF c.rootCert = "unreadable" THEN "panicked"        \* ioutil.ReadFile
    ELSE IF c.rootCert = "unparseable" THEN "panicked"  \* AppendCertsFromPEM
    ELSE IF c.serverPair # "ok" THEN "exited"           \* log.Fatalf
    ELSE IF c.listenAddr # "ok" THEN "panicked"         \* tls.Listen
    ELSE "accepting"

StartOutcome(c) ==
    CASE c.listenProto = "tcp" -> StartTCPOutcome(c)
      [] c.listenProto = "tls" -> StartTLSOutcome(c)
      [] OTHER -> "panicked"

StartPlace(c) ==
    CASE c.listenProto = "tcp" -> "startTCP"
      [] c.listenProto = "tls" -> "startTLS"
      [] OTHER -> "Start"

Start ==
    /\ proc = "init"
    /\ proc' = StartOutcome(config)
    /\ crashAt' = IF StartOutcome(config) = "accepting" THEN "none" ELSE StartPlace(config)
    /\ UNCHANGED <<harness, config, loopWait, acceptErrs, sess>>

----------------------------------------------------------------------------
(* The accept loop of startTCP / startTLS.                                 *)

\* what a client brings to an encrypted listener (nothing to a plain one)
CertKinds(c) ==
    IF c.listenProto = "tls" THEN {"valid", "none", "untrusted"} ELSE {"plain"}

NewSession(cert) ==
    [cert |-> cert,
     hs |-> IF cert = "plain" THEN "none" ELSE "pending",
     front |-> "open", back |-> "nil",
     pcS |-> "serve", pcG |-> "nil",
     bufS |-> <<>>, bufG |-> <<>>,
     ret |-> "none", dials |-> 0, loads |-> 0,
     fSent |-> 0, fClosed |-> FALSE, fReset |-> FALSE,
     fIn |-> <<>>, fRead |-> <<>>, toBack |-> <<>>,
     bSent |-> 0, bClosed |-> FALSE, bReset |-> FALSE,
     bIn |-> <<>>, bRead |-> <<>>, toFront |-> <<>>]

\* rp.serve(conn) without go: the loop waits for the Session it serves
DispatchCall(i) == i

\* go rp.serve(conn): the loop waits for no Session
Dispatch(i) == 0

\* the loop is at Accept, not inside a call it made
LoopAtAccept ==
    /\ proc = "accepting"
    /\ IF loopWait = 0 THEN TRUE ELSE sess[loopWait].pcS = "done"

AcceptOK ==
    /\ LoopAtAccept
    /\ Len(sess) + acceptErrs < MaxAccepts
    /\ \E cert \in CertKinds(config) :
         sess' = Append(sess, NewSession(cert))
    /\ loopWait' = Dispatch(Len(sess) + 1)
    /\ UNCHANGED <<harness, config, proc, crashAt, acceptErrs>>

\* an Accept error handled with log.Fatalf
AcceptErrorFatal == "exited"

\* the process after an Accept error: logged, continue
OnAcceptError == "accepting"

AcceptErr ==
    /\ LoopAtAccept
    /\ Len(sess) + acceptErrs < MaxAccepts
    /\ acceptErrs' = acceptErrs + 1
    /\ proc' = OnAcceptError
    /\ crashAt' = IF OnAcceptError = "accepting" THEN crashAt ELSE StartPlace(config)
    /\ UNCHANGED <<harness, config, loopWait, sess>>

----------------------------------------------------------------------------
(* The serving task of one accepted connection: serve and the head of      *)
(* serveTCP / serveTLS, up to the dial.                                    *)

\* the backend handle kept in one variable that all Sessions share
UpdSharedBackend(i, s) ==
    sess' = [j \in DOMAIN sess |->
                IF j = i THEN s
                ELSE [sess[j] EXCEPT !.back =
                         IF @ # "nil" /\ s.back # "nil" THEN s.back ELSE @]]

Upd(i, s) == sess' = [sess EXCEPT ![i] = s]

\* serveTLS before its dial: the client configuration is built per call
ServeTLSOutcome(c) ==
    IF c.rootCert = "unreadable" THEN "exited"          \* log.Fatalf
    ELSE IF c.rootCert = "unparseable" THEN "panicked"  \* AppendCertsFromPEM
    ELSE IF c.clientPair # "ok" THEN "panicked"         \* LoadX509KeyPair
    ELSE "dial"

\* serve's switch on the backend protocol
ServeOutcome(c) ==
    CASE c.backendProto = "tcp" -> "dial"
      [] c.backendProto = "tls" -> ServeTLSOutcome(c)
      [] OTHER -> "panicked"

ServePlace(c) == IF c.backendProto = "tls" THEN "serveTLS" ELSE "serve"

\* how often the serving call reads the root file and the client key pair
\* and builds a tls.Config from them before it dials
ServeLoads(c) == IF c.backendProto = "tls" THEN 1 ELSE 0

Serve(i) ==
    /\ proc = "accepting"
    /\ sess[i].pcS = "serve"
    /\ IF ServeOutcome(config) = "dial"
         THEN /\ Upd(i, [sess[i] EXCEPT !.pcS = "dial",
                                        !.loads = @ + ServeLoads(config)])
              /\ UNCHANGED <<proc, crashAt>>
         ELSE /\ proc' = ServeOutcome(config)
              /\ crashAt' = ServePlace(config)
              /\ UNCHANGED sess
    /\ UNCHANGED <<harness, config, loopWait, acceptErrs>>

\* how the backend makes a dial fail: net.DialTimeout, or tls.Dial (which
\* closes what it opened)
DialErrors(c) ==
    IF c.backendProto = "tls" THEN {"refused", "handshake"} ELSE {"refused"}

\* the dial carries a deadline: net.DialTimeout(.., 30*time.Second) does,
\* tls.Dial(..) dials with a zero net.Dialer and does not
HasDialTimeout(c) == c.backendProto = "tcp"

\* a serving call that dials the backend a second time and drops the first
\* connection
OnDialOKTwice(s) ==
    [s EXCEPT !.back = "open", !.dials = @ + 2, !.pcG = "read", !.pcS = "read"]

\* the dial succeeded: the goroutine of the front-to-back copy is started and
\* the serving task enters the back-to-front copy
OnDialOK(s) ==
    [s EXCEPT !.back = "open", !.dials = @ + 1, !.pcG = "read", !.pcS = "read"]

DialOK(i) ==
    /\ proc = "accepting"
    /\ sess[i].pcS = "dial"
    /\ Upd(i, OnDialOK(sess[i]))
    /\ UNCHANGED <<harness, config, proc, crashAt, loopWait, acceptErrs>>

\* a failed dial that is tried again
OnDialErrorRetry(s, why) == [s EXCEPT !.dials = @ + 1]

\* a failed dial that returns without closing listenConn
OnDialErrorLeak(s, why) ==
    [s EXCEPT !.dials = @ + 1, !.pcS = "done", !.ret = why]

\* if err != nil { listenConn.Close(); return err }
OnDialError(s, why) ==
    [s EXCEPT !.dials = @ + 1, !.front = "closed", !.pcS = "done", !.ret = why]

DialFail(i) ==
    /\ proc = "accepting"
    /\ sess[i].pcS = "dial"
    /\ \E why \in DialErrors(config) : Upd(i, OnDialError(sess[i], why))
    /\ UNCHANGED <<harness, config, proc, crashAt, loopWait, acceptErrs>>

\* the deadline of the dial passes before the backend answered
DialExpire(i) ==
    /\ proc = "accepting"
    /\ sess[i].pcS = "dial"
    /\ HasDialTimeout(config)
    /\ Upd(i, OnDialError(sess[i], "timeout"))
    /\ UNCHANGED <<harness, config, proc, crashAt, loopWait, acceptErrs>>

----------------------------------------------------------------------------
(* The peers.  A client of an encrypted listener sends payload only once   *)
(* the handshake is done.                                                  *)

\* what the two peers of a Session have done so far
PeerEventsOf(s) ==
    s.fSent + s.bSent + (IF s.fClosed THEN 1 ELSE 0) + (IF s.bClosed THEN 1 ELSE 0)

RECURSIVE PeerEventsUpTo(_)
PeerEventsUpTo(n) ==
    IF n = 0 THEN 0 ELSE PeerEventsUpTo(n - 1) + PeerEventsOf(sess[n])

PeerMayAct == proc = "accepting" /\ PeerEventsUpTo(Len(sess)) < MaxPeerEvents

FrontSend(i) ==
    /\ PeerMayAct
    /\ LET s == sess[i] IN
         /\ s.front = "open" /\ ~s.fClosed
         /\ s.hs \in {"none", "done"}
         /\ Upd(i, [s EXCEPT !.fSent = @ + 1,
                             !.fIn = Append(@, FrontPayload(i)[s.fSent + 1])])
    /\ UNCHANGED <<harness, config, proc, crashAt, loopWait, acceptErrs>>

FrontClose(i) ==
    /\ PeerMayAct
    /\ sess[i].front = "open" /\ ~sess[i].fClosed
    /\ Upd(i, [sess[i] EXCEPT !.fClosed = TRUE])
    /\ UNCHANGED <<harness, config, proc, crashAt, loopWait, acceptErrs>>

BackSend(i) ==
    /\ PeerMayAct
    /\ LET s == sess[i] IN
         /\ s.back = "open" /\ ~s.bClosed
         /\ Upd(i, [s EXCEPT !.bSent = @ + 1,
                             !.bIn = Append(@, BackPayload(i)[s.bSent + 1])])
    /\ UNCHANGED <<harness, config, proc, crashAt, loopWait, acceptErrs>>

BackClose(i) ==
    /\ PeerMayAct
    /\ sess[i].back = "open" /\ ~sess[i].bClosed
    /\ Upd(i, [sess[i] EXCEPT !.bClosed = TRUE])
    /\ UNCHANGED <<harness, config, proc, crashAt, loopWait, acceptErrs>>

----------------------------------------------------------------------------
(* The lazy server-side handshake of an encrypted front connection: it     *)
(* runs inside the first Read or Write on listenConn, and its error sticks. *)

\* a listener that asks for no verified client certificate
VerifyAnyCert(cert) == TRUE

\* ClientAuth: tls.RequireAndVerifyClientCert, ClientCAs: roots
VerifyClientCert(cert) == cert = "valid"

HandshakeResult(s) ==
    IF VerifyClientCert(s.cert) /\ ~s.fClosed THEN "done" ELSE "failed"

----------------------------------------------------------------------------
(* The two copy loops of a Session.  Task "G" is the goroutine             *)
(* io.Copy(backendConn, listenConn), task "S" the serving task's           *)
(* io.Copy(listenConn, backendConn).  Each loop alternates a Read of its   *)
(* source with a Write of the chunk to its destination; when it ends, the  *)
(* task closes backendConn, then listenConn.  A Write never blocks: the     *)
(* transport takes what it is given.  A Write to a connection its peer has *)
(* closed either fails or is taken and answered by a reset, after which a  *)
(* Read of that connection may fail with what the peer sent still unread.  *)

Tasks == {"G", "S"}

\* the fields of a Session a task works on
Pc(t) == IF t = "G" THEN "pcG" ELSE "pcS"
Buf(t) == IF t = "G" THEN "bufG" ELSE "bufS"
Src(t) == IF t = "G" THEN "front" ELSE "back"
Dst(t) == IF t = "G" THEN "back" ELSE "front"
SrcIn(t) == IF t = "G" THEN "fIn" ELSE "bIn"
SrcRead(t) == IF t = "G" THEN "fRead" ELSE "bRead"
SrcPeerClosed(t) == IF t = "G" THEN "fClosed" ELSE "bClosed"
DstPeerClosed(t) == IF t = "G" THEN "bClosed" ELSE "fClosed"
DstWritten(t) == IF t = "G" THEN "toBack" ELSE "toFront"
SrcReset(t) == IF t = "G" THEN "fReset" ELSE "bReset"
DstReset(t) == IF t = "G" THEN "bReset" ELSE "fReset"

\* the task is in a Read or Write on listenConn
OnFront(s, t) ==
    \/ t = "G" /\ s.pcG = "read"
    \/ t = "S" /\ s.pcS = "write"

Handshake(i, t) ==
    /\ proc = "accepting"
    /\ LET s == sess[i] IN
         /\ OnFront(s, t)
         /\ s.front = "open" /\ s.hs = "pending"
         /\ Upd(i, [s EXCEPT !.hs = HandshakeResult(s)])
    /\ UNCHANGED <<harness, config, proc, crashAt, loopWait, acceptErrs>>

\* io.Copy returns: the task goes on to its two Close calls
EndCopy(s, t) ==
    [s EXCEPT ![Pc(t)] = "closeBack", ![Buf(t)] = <<>>]

\* a Read or Write that is not woken when this process closes the handle
UnusableOnlyByHandshake(s, h) == h = "front" /\ s.hs = "failed"

\* a Read or Write on handle h fails at once: closed by this process, or an
\* encrypted front connection whose handshake failed
Unusable(s, h) == s[h] = "closed" \/ (h = "front" /\ s.hs = "failed")

\* a Read or Write on handle h can start: no handshake is pending on it
Ready(s, h) == s[h] = "closed" \/ h # "front" \/ s.hs # "pending"

\* a Read that reports end-of-stream with bytes of the peer still unread
EOFOnPeerClose(s, t) == s[SrcPeerClosed(t)]

\* Read returns end-of-stream: the peer closed and all it sent has been read
AtEOF(s, t) == s[SrcPeerClosed(t)] /\ s[SrcIn(t)] = <<>>

CopyRead(i, t) ==
    /\ proc = "accepting"
    /\ LET s == sess[i] IN
         /\ s[Pc(t)] = "read"
         /\ Ready(s, Src(t))
         /\ IF Unusable(s, Src(t)) \/ AtEOF(s, t)
              THEN Upd(i, EndCopy(s, t))
              ELSE /\ s[SrcIn(t)] # <<>>
                   /\ \/ \E n \in 1..Min(Len(s[SrcIn(t)]), MaxChunk) :
                           Upd(i, [s EXCEPT ![Buf(t)] = Take(s[SrcIn(t)], n),
                                            ![SrcIn(t)] = Drop(@, n),
                                            ![SrcRead(t)] = @ \o Take(s[SrcIn(t)], n),
                                            ![Pc(t)] = "write"])
                      \/ /\ s[SrcReset(t)]     \* connection reset by peer
                         /\ Upd(i, EndCopy(s, t))
    /\ UNCHANGED <<harness, config, proc, crashAt, loopWait, acceptErrs>>

\* a copy loop that writes each chunk twice
WriteChunkTwice(written, chunk) == written \o chunk \o chunk

\* dst.Write(buf[0:nr]): what the destination has been given after the chunk
WriteChunk(written, chunk) == written \o chunk

CopyWrite(i, t) ==
    /\ proc = "accepting"
    /\ LET s == sess[i] IN
         /\ s[Pc(t)] = "write"
         /\ Ready(s, Dst(t))
         /\ IF Unusable(s, Dst(t))
              THEN Upd(i, EndCopy(s, t))
              ELSE \/ Upd(i, [s EXCEPT ![DstWritten(t)] = WriteChunk(@, s[Buf(t)]),
                                       ![DstReset(t)] = s[DstPeerClosed(t)],
                                       ![Buf(t)] = <<>>,
                                       ![Pc(t)] = "read"])
                   \/ /\ s[DstPeerClosed(t)]
                      /\ \E k \in 0..(Len(s[Buf(t)]) - 1) :
                           Upd(i, EndCopy([s EXCEPT ![DstWritten(t)] =
                                               WriteChunk(@, Take(s[Buf(t)], k)),
                                                    ![DstReset(t)] = TRUE],
                                          t))
    /\ UNCHANGED <<harness, config, proc, crashAt, loopWait, acceptErrs>>

\* a task that leaves backendConn open
SkipCloseBackend(s, t) == [s EXCEPT ![Pc(t)] = "closeFront"]

\* backendConn.Close()
AfterCloseBackend(s, t) == [s EXCEPT !.back = "closed", ![Pc(t)] = "closeFront"]

CloseBackend(i, t) ==
    /\ proc = "accepting"
    /\ sess[i][Pc(t)] = "closeBack"
    /\ Upd(i, AfterCloseBackend(sess[i], t))
    /\ UNCHANGED <<harness, config, proc, crashAt, loopWait, acceptErrs>>

\* a task that ends and leaves listenConn open
SkipCloseListen(s, t) ==
    [s EXCEPT ![Pc(t)] = "done", !.ret = IF t = "S" THEN "nil" ELSE @]

\* listenConn.Close(), and the task ends (serveTCP / serveTLS return nil)
AfterCloseListen(s, t) ==
    [s EXCEPT !.front = "closed", ![Pc(t)] = "done",
              !.ret = IF t = "S" THEN "nil" ELSE @]

CloseListen(i, t) ==
    /\ proc = "accepting"
    /\ sess[i][Pc(t)] = "closeFront"
    /\ Upd(i, AfterCloseListen(sess[i], t))
    /\ UNCHANGED <<harness, config, proc, crashAt, loopWait, acceptErrs>>

----------------------------------------------------------------------------
\* the test backend is a program of its own: not running here
NoHarness == [hproc |-> "none", exitAt |-> "none", exitConn |-> 0,
              stdin |-> 0, lines |-> 0, conns |-> <<>>]

Init ==
    /\ config \in Configs
    /\ proc = "init"
    /\ crashAt = "none"
    /\ loopWait = 0
    /\ acceptErrs = 0
    /\ sess = <<>>
    /\ harness = NoHarness

Next ==
    \/ Start
    \/ AcceptOK
    \/ AcceptErr
    \/ \E i \in 1..Len(sess) : Serve(i)
    \/ \E i \in 1..Len(sess) : DialOK(i)
    \/ \E i \in 1..Len(sess) : DialFail(i)
    \/ \E i \in 1..Len(sess) : DialExpire(i)
    \/ \E i \in 1..Len(sess) : FrontSend(i)
    \/ \E i \in 1..Len(sess) : FrontClose(i)
    \/ \E i \in 1..Len(sess) : BackSend(i)
    \/ \E i \in 1..Len(sess) : BackClose(i)
    \/ \E i \in 1..Len(sess), t \in Tasks : Handshake(i, t)
    \/ \E i \in 1..Len(sess), t \in Tasks : CopyRead(i, t)
    \/ \E i \in 1..Len(sess), t \in Tasks : CopyWrite(i, t)
    \/ \E i \in 1..Len(sess), t \in Tasks : CloseBackend(i, t)
    \/ \E i \in 1..Len(sess), t \in Tasks : CloseListen(i, t)

Spec == Init /\ [][Next]_vars

\* a step of task t of Session i once the dial succeeded
TaskStep(i, t) ==
    /\ i <= Len(sess)
    /\ \/ Handshake(i, t)
       \/ CopyRead(i, t)
       \/ CopyWrite(i, t)
       \/ CloseBackend(i, t)
       \/ CloseListen(i, t)

\* the deadline of a pending dial of Session i passes
TimerStep(i) == i <= Len(sess) /\ DialExpire(i)

\* the Go scheduler runs every goroutine that can run and the runtime fires
\* every timer that is due; the peers, the backend's answer to a dial and
\* Accept owe nothing
FairSpec ==
    /\ Spec
    /\ \A i \in 1..MaxAccepts : \A t \in Tasks : WF_vars(TaskStep(i, t))
    /\ \A i \in 1..MaxAccepts : WF_vars(TimerStep(i))

----------------------------------------------------------------------------
(* The test backend (package main).  main listens with mutual TLS, a       *)
(* goroutine feeds the lines of the console into the channel stdin, and    *)
(* every accepted connection gets a goroutine handleConn, which after the  *)
(* handshake starts the task read and runs the task write itself.  The     *)
(* peer of a connection is the proxy that dialed it.  A Write to a         *)
(* connection the peer has closed is taken and answered by a reset; once   *)
(* reset, a Write may fail and a Read may fail with an error other than    *)
(* end-of-stream.                                                          *)

\* var quit = make(chan bool, 2)
QuitCap == 2
\* var stdin = make(chan string, 1024)
StdinCap == 1024

HConns == 1..Len(harness.conns)

\* a connection as Accept returns it: handleConn is about to shake hands
NewHConn(cert) ==
    [cert |-> cert, pcW |-> "handshake", pcR |-> "nil", quit |-> 0,
     closed |-> FALSE, peerClosed |-> FALSE, peerSent |-> 0, pending |-> 0,
     reset |-> FALSE, eof |-> FALSE, wfail |-> FALSE]

HUpd(c, r) == harness' = [harness EXCEPT !.conns[c] = r]

\* log.Fatal / log.Fatalf: the process ends at once, nothing deferred runs
HExit(place, c) ==
    harness' = [harness EXCEPT !.hproc = "exited", !.exitAt = place,
                               !.exitConn = c]

\* the proxy is another process
ProxyIdle == UNCHANGED <<config, proc, crashAt, loopWait, acceptErrs, sess>>

\* main up to the accept loop: the certificates load and the listener opens,
\* or log.Fatal / log.Fatalf
HMain ==
    /\ harness.hproc = "init"
    /\ \/ harness' = [harness EXCEPT !.hproc = "running"]
       \/ HExit("main", 0)
    /\ ProxyIdle

\* readStdin: a line of the console goes into the channel
HStdin ==
    /\ harness.hproc = "running"
    /\ harness.lines < MaxLines
    /\ harness.stdin < StdinCap
    /\ harness' = [harness EXCEPT !.stdin = @ + 1, !.lines = @ + 1]
    /\ ProxyIdle

\* listener.Accept() returns a connection: go handleConn(conn, stdin)
HAccept ==
    /\ harness.hproc = "running"
    /\ Len(harness.conns) < MaxHarnessConns
    /\ \E cert \in {"valid", "none"} :
         harness' = [harness EXCEPT !.conns = Append(@, NewHConn(cert))]
    /\ ProxyIdle

\* listener.Accept() returns an error: log.Fatalf
HAcceptErr ==
    /\ harness.hproc = "running"
    /\ HExit("accept", 0)
    /\ ProxyIdle

\* tlsConn.Handshake() succeeds for a peer that is there with a certificate
\* of the root
HandshakeOK(r) == r.cert = "valid" /\ ~r.peerClosed

\* handleConn up to write: the handshake, then go read(conn, quit)
HHandshake(c) ==
    /\ harness.hproc = "running"
    /\ LET r == harness.conns[c] IN
         /\ r.pcW = "handshake"
         /\ IF HandshakeOK(r)
              THEN HUpd(c, [r EXCEPT !.pcW = "select", !.pcR = "read"])
              ELSE HExit("handshake", c)
    /\ ProxyIdle

HPeerSend(c) ==
    /\ harness.hproc = "running"
    /\ LET r == harness.conns[c] IN
         /\ r.pcW # "handshake" /\ ~r.peerClosed
         /\ r.peerSent < MaxPeerMsgs
         /\ HUpd(c, [r EXCEPT !.peerSent = @ + 1, !.pending = @ + 1])
    /\ ProxyIdle

HPeerClose(c) ==
    /\ harness.hproc = "running"
    /\ LET r == harness.conns[c] IN
         /\ ~r.peerClosed
         /\ HUpd(c, [r EXCEPT !.peerClosed = TRUE])
    /\ ProxyIdle

\* what conn.Read(buf) can return now; nothing: it blocks
ReadResults(r) ==
    IF r.closed THEN {"closed"}
    ELSE (IF r.pending > 0 THEN {"data"}
          ELSE IF r.peerClosed THEN {"EOF"} ELSE {})
         \cup (IF r.reset THEN {"reset"} ELSE {})

\* read: if err != nil { if err != io.EOF { log.Fatalf } ... }
ReadIsFatal(res) == res \notin {"data", "EOF"}

\* one turn of the loop of read, up to the send on quit
HRead(c) ==
    /\ harness.hproc = "running"
    /\ LET r == harness.conns[c] IN
         /\ r.pcR = "read"
         /\ \E res \in ReadResults(r) :
              IF ReadIsFatal(res) THEN HExit("read", c)
              ELSE IF res = "EOF"
                THEN HUpd(c, [r EXCEPT !.eof = TRUE, !.pcR = "sendQuit"])
                ELSE HUpd(c, [r EXCEPT !.pending = @ - 1])
    /\ ProxyIdle

\* a read that sends on quit and goes on reading
ReadQuitNoReturn(r) == [r EXCEPT !.quit = @ + 1, !.pcR = "read"]

\* read: quit <- true; return
AfterReadQuit(r) == [r EXCEPT !.quit = @ + 1, !.pcR = "done"]

HReadQuit(c) ==
    /\ harness.hproc = "running"
    /\ LET r == harness.conns[c] IN
         /\ r.pcR = "sendQuit"
         /\ r.quit < QuitCap
         /\ HUpd(c, AfterReadQuit(r))
    /\ ProxyIdle

\* write and handleConn return: the deferred conn.Close() runs
WriteReturns(r) == [r EXCEPT !.pcW = "done", !.closed = TRUE]

\* write: case <-quit: return
HSelectQuit(c) ==
    /\ harness.hproc = "running"
    /\ LET r == harness.conns[c] IN
         /\ r.pcW = "select"
         /\ r.quit > 0
         /\ HUpd(c, WriteReturns([r EXCEPT !.quit = @ - 1]))
    /\ ProxyIdle

\* what conn.Write(message) can return now
WriteResults(r) == IF r.reset THEN {"ok", "error"} ELSE {"ok"}

\* write: case message := <-stdin, and the Write of the message
HSelectStdin(c) ==
    /\ harness.hproc = "running"
    /\ harness.stdin > 0
    /\ LET r == harness.conns[c] IN
         /\ r.pcW = "select"
         /\ \E res \in WriteResults(r) :
              harness' = [harness EXCEPT
                  !.stdin = @ - 1,
                  !.conns[c] = IF res = "ok"
                                 THEN [r EXCEPT !.reset = r.peerClosed]
                                 ELSE [r EXCEPT !.wfail = TRUE,
                                                !.pcW = "sendQuit"]]
    /\ ProxyIdle

\* write: quit <- true; return
HWriteQuit(c) ==
    /\ harness.hproc = "running"
    /\ LET r == harness.conns[c] IN
         /\ r.pcW = "sendQuit"
         /\ r.quit < QuitCap
         /\ HUpd(c, WriteReturns([r EXCEPT !.quit = @ + 1]))
    /\ ProxyIdle

\* the test backend before main, next to a proxy that dials it with TLS
HarnessInit ==
    /\ config = [listenProto |-> "tcp", backendProto |-> "tls",
                 rootCert |-> "ok", serverPair |-> "ok", clientPair |-> "ok",
                 listenAddr |-> "ok"]
    /\ proc = "init"
    /\ crashAt = "none"
    /\ loopWait = 0
    /\ acceptErrs = 0
    /\ sess = <<>>
    /\ harness = [NoHarness EXCEPT !.hproc = "init"]

HarnessNext ==
    \/ HMain
    \/ HStdin
    \/ HAccept
    \/ HAcceptErr
    \/ \E c \in 1..Len(harness.conns) : HHandshake(c)
    \/ \E c \in 1..Len(harness.conns) : HPeerSend(c)
    \/ \E c \in 1..Len(harness.conns) : HPeerClose(c)
    \/ \E c \in 1..Len(harness.conns) : HRead(c)
    \/ \E c \in 1..Len(harness.conns) : HReadQuit(c)
    \/ \E c \in 1..Len(harness.conns) : HSelectQuit(c)
    \/ \E c \in 1..Len(harness.conns) : HSelectStdin(c)
    \/ \E c \in 1..Len(harness.conns) : HWriteQuit(c)

HarnessSpec == HarnessInit /\ [][HarnessNext]_vars

\* the task read of connection c
HReadStep(c) == c <= Len(harness.conns) /\ (HRead(c) \/ HReadQuit(c))

\* the goroutine handleConn of connection c, which runs write
HWriteStep(c) ==
    /\ c <= Len(harness.conns)
    /\ (HHandshake(c) \/ HSelectQuit(c) \/ HSelectStdin(c) \/ HWriteQuit(c))

\* the Go scheduler runs every goroutine that can run; the peers, the
\* console and Accept owe nothing
HarnessFairSpec ==
    /\ HarnessSpec
    /\ \A c \in 1..MaxHarnessConns : WF_vars(HReadStep(c)) /\ WF_vars(HWriteStep(c))

----------------------------------------------------------------------------
(* The claims.                                                             *)

Sessions == 1..Len(sess)

\* the dial succeeded
Established(s) == s.back # "nil"

\* the front connection is plain or its handshake succeeded
FrontUsable(s) == s.hs \in {"none", "done"}

\* C1 -- Transparency (safety): in every Session, what has been written to
\* the backend connection is a prefix of what has been read from the front
\* connection, and what has been written to the front connection is a prefix
\* of what has been read from the backend connection.
Transparency ==
    \A i \in Sessions :
        /\ IsPrefix(sess[i].toBack, sess[i].fRead)
        /\ IsPrefix(sess[i].toFront, sess[i].bRead)
        /\ IsPrefix(sess[i].fRead, FrontPayload(i))
        /\ IsPrefix(sess[i].bRead, BackPayload(i))

\* two bytes went front to back in order while a byte went back to front
TransparencyWitness ==
    \E i \in Sessions :
        /\ Len(sess[i].toBack) >= 2
        /\ sess[i].toBack = Take(FrontPayload(i), 2)
        /\ Len(sess[i].toFront) >= 1

\* all the front peer sent is at the backend
AllToBack(i) == sess[i].toBack = Take(FrontPayload(i), sess[i].fSent)

\* all the backend peer sent is at the front
AllToFront(i) == sess[i].toFront = Take(BackPayload(i), sess[i].bSent)

\* C2 as stated -- complete delivery: once the front peer has closed, the
\* backend peer has not, and the proxy has closed the backend connection, the
\* backend has been given all the front peer sent, whatever the backend sent;
\* and the same with the two sides exchanged.
CompleteDelivery ==
    \A i \in Sessions :
        (Established(sess[i]) /\ FrontUsable(sess[i])) =>
            /\ (sess[i].fClosed /\ ~sess[i].bClosed /\ sess[i].back = "closed")
                  => AllToBack(i)
            /\ (sess[i].bClosed /\ ~sess[i].fClosed /\ sess[i].front = "closed")
                  => AllToFront(i)

\* C2 as amended -- complete delivery holds provided the proxy has attempted
\* no Write to the connection its peer closed (a Write of bytes that came the
\* other way after the close): such a Write fails, which makes its copy loop
\* close both connections at once, or is answered by a reset.
CompleteDeliveryUnlessReverseWrite ==
    \A i \in Sessions :
        (Established(sess[i]) /\ FrontUsable(sess[i])) =>
            /\ (sess[i].fClosed /\ ~sess[i].bClosed /\ sess[i].back = "closed"
                   /\ ~sess[i].fReset)
                  => AllToBack(i)
            /\ (sess[i].bClosed /\ ~sess[i].fClosed /\ sess[i].front = "closed"
                   /\ ~sess[i].bReset)
                  => AllToFront(i)

\* the front peer sent, then closed; the backend peer sent too and stays
\* open; the proxy closed the backend connection
CompleteDeliveryWitness ==
    \E i \in Sessions :
        /\ Established(sess[i]) /\ FrontUsable(sess[i])
        /\ sess[i].fSent >= 1 /\ sess[i].bSent >= 1
        /\ sess[i].fClosed /\ ~sess[i].bClosed /\ sess[i].back = "closed"
        /\ ~sess[i].fReset
        /\ AllToBack(i)

\* the proxy owes no close: in every established Session whose front peer
\* closed the backend handle is closed, and in every one whose backend peer
\* closed the front handle is closed
ClosesPropagated ==
    \A i \in Sessions :
        Established(sess[i]) =>
            /\ sess[i].fClosed => sess[i].back = "closed"
            /\ sess[i].bClosed => sess[i].front = "closed"

DialErrorKinds == {"refused", "timeout", "handshake"}

\* C4 -- dial failure cleanup: a Session whose dial failed has its front
\* connection closed, no backend handle, no copy loop, nothing relayed, its
\* serving task returned the error, and the process is running.
DialFailureCleanup ==
    \A i \in Sessions :
        sess[i].ret \in DialErrorKinds =>
            /\ sess[i].front = "closed"
            /\ sess[i].back = "nil"
            /\ sess[i].pcG = "nil" /\ sess[i].pcS = "done"
            /\ sess[i].toBack = <<>> /\ sess[i].toFront = <<>>
            /\ proc = "accepting"

\* a dial failed after the client had already sent a byte
DialFailureWitness ==
    \E i \in Sessions : sess[i].ret \in DialErrorKinds /\ sess[i].fSent >= 1

\* the client's certificate does not pass the listener's verification
Rejected(s) == s.cert \in {"none", "untrusted"}

\* C5 as stated -- mutual-auth enforcement: for a client that presents no
\* certificate or one not chaining to the root, no backend connection is
\* dialed and no copy loop is started.
RejectedNeverReachesRelay ==
    \A i \in Sessions :
        Rejected(sess[i]) =>
            /\ sess[i].dials = 0 /\ sess[i].back = "nil"
            /\ sess[i].pcG = "nil"
            /\ sess[i].pcS \in {"serve", "dial", "done"}

\* C6 -- for a client whose certificate fails verification no payload byte
\* is relayed: nothing is written to the backend connection and nothing to
\* the front connection.
NoRelayForRejected ==
    \A i \in Sessions :
        Rejected(sess[i]) =>
            /\ sess[i].toBack = <<>> /\ sess[i].toFront = <<>>
            /\ sess[i].fRead = <<>>

\* the handshake of a rejected client failed while the serving task held a
\* byte of the backend for it, and the Session ended
NoRelayWitness ==
    \E i \in Sessions :
        /\ Rejected(sess[i]) /\ sess[i].hs = "failed"
        /\ sess[i].bRead # <<>>
        /\ sess[i].pcS = "done" /\ sess[i].pcG = "done"

\* C7 -- accept errors are non-fatal: a step that logs an Accept error
\* leaves the process running with the loop at Accept and every Session as
\* it was.
AcceptErrorNonFatal ==
    [][acceptErrs' # acceptErrs =>
          /\ proc' = "accepting"
          /\ LoopAtAccept'
          /\ sess' = sess]_vars

\* an Accept error was logged while a Session is relaying
AcceptErrorWitness ==
    /\ acceptErrs >= 1 /\ proc = "accepting"
    /\ \E i \in Sessions : sess[i].pcS \in {"read", "write"}

\* C8 -- the accept loop never blocks on a Session: while the process runs
\* the loop is at Accept, whatever the Sessions are doing, and it can accept
\* a further connection.
AcceptNeverBlocked ==
    proc = "accepting" =>
        /\ LoopAtAccept
        /\ (Len(sess) + acceptErrs < MaxAccepts) => ENABLED AcceptOK

\* one Session is waiting for its dial and the loop can accept another
AcceptNeverBlockedWitness ==
    /\ Len(sess) >= 1 /\ sess[1].pcS = "dial"
    /\ ENABLED AcceptOK

\* the listen side of the configuration cannot be served
ListenDefect(c) ==
    \/ c.listenProto \notin {"tcp", "tls"}
    \/ c.listenProto = "tls" /\ (c.rootCert # "ok" \/ c.serverPair # "ok")
    \/ c.listenAddr # "ok"

\* C9 -- listen-side configuration errors are fatal before serving: with
\* such a configuration Start ends the process, and no Accept ever returns.
ListenConfigFatal ==
    ListenDefect(config) =>
        /\ proc \in {"init", "panicked", "exited"}
        /\ sess = <<>> /\ acceptErrs = 0

\* Start ended the process on an unloadable server key pair
ListenConfigFatalWitness ==
    /\ config.listenProto = "tls" /\ config.serverPair # "ok"
    /\ proc = "exited" /\ crashAt = "startTLS"

\* the backend side of the configuration cannot be served
BackendDefect(c) ==
    \/ c.backendProto \notin {"tcp", "tls"}
    \/ c.backendProto = "tls" /\ (c.rootCert # "ok" \/ c.clientPair # "ok")

\* C10 as stated -- backend-side configuration errors are fatal before
\* serving: with such a configuration Start never enters the accept loop and
\* no connection is ever accepted.
BackendConfigFatalBeforeServing ==
    BackendDefect(config) => (proc # "accepting" /\ sess = <<>>)

\* C11 as stated -- the dial is bounded for both backend transports: no
\* serving task stays in the dialing state forever, even if the backend
\* never answers.
DialBounded == []<>(\A i \in Sessions : sess[i].pcS # "dial")

\* the bytes of a sequence
Range(q) == {q[k] : k \in 1..Len(q)}

\* C12 -- isolation: what a Session writes to its backend connection was
\* sent by its own front peer and what it writes to its front connection
\* was sent by its own backend peer; and a step that changes Session i (a
\* dial failure, an I/O error, a close, a copy) leaves every other Session
\* as it was and the process running.
SessionIsolation ==
    /\ [](\A i \in Sessions :
            /\ Range(sess[i].toBack) \subseteq Range(FrontPayload(i))
            /\ Range(sess[i].toFront) \subseteq Range(BackPayload(i)))
    /\ [][\A i \in Sessions :
            sess'[i] # sess[i] =>
                /\ proc' = "accepting"
                /\ \A j \in Sessions \ {i} : sess'[j] = sess[j]]_vars

\* one Session relayed a byte and has ended with both handles closed while
\* another one, which relayed a byte too, is still open on both sides
SessionIsolationWitness ==
    \E i, j \in Sessions :
        /\ i # j
        /\ sess[i].pcS = "done" /\ sess[i].pcG = "done"
        /\ sess[i].toBack # <<>>
        /\ sess[j].front = "open" /\ sess[j].back = "open"
        /\ sess[j].toBack # <<>>

\* the copy loop of task t has ended: io.Copy returned
LoopEnded(s, t) ==
    Established(s) /\ s[Pc(t)] \in {"closeBack", "closeFront", "done"}

\* both tasks of an established Session are over and both handles closed
SessionTerminated(s) ==
    /\ s.pcG = "done" /\ s.pcS = "done"
    /\ s.front = "closed" /\ s.back = "closed"

\* C13 -- termination rule: in an established Session a task whose copy
\* loop ended has closed both connections when it is over, and once either
\* loop has ended the whole Session eventually terminates: the other loop
\* returns too, whatever the interleaving.
TerminationRule ==
    /\ [](\A i \in Sessions : \A t \in Tasks :
            (Established(sess[i]) /\ sess[i][Pc(t)] = "done") =>
                (sess[i].front = "closed" /\ sess[i].back = "closed"))
    /\ []<>(\A i \in Sessions :
              (\E t \in Tasks : LoopEnded(sess[i], t)) =>
                  SessionTerminated(sess[i]))

\* the front peer closed after its byte was relayed, the backend peer never
\* closed nor sent, and yet the back-to-front loop is over too
TerminationRuleWitness ==
    \E i \in Sessions :
        /\ SessionTerminated(sess[i])
        /\ sess[i].fClosed /\ ~sess[i].bClosed /\ sess[i].bSent = 0
        /\ sess[i].toBack # <<>>

\* C14 as stated -- the relay runs until both directions are drained: when
\* serveTCP / serveTLS has returned nil to its caller, the front-to-back copy
\* loop of the goroutine has ended as well as its own back-to-front loop.
RelayReturnsAfterBothLoops ==
    \A i \in Sessions :
        (sess[i].pcS = "done" /\ sess[i].ret = "nil") => LoopEnded(sess[i], "G")

\* every task of the Session is over (the goroutine may never have started)
AllTasksOver(s) == s.pcS = "done" /\ s.pcG \in {"nil", "done"}

\* C15 -- resource discipline: when all tasks of a Session are over, its
\* front handle is closed and its backend handle, if one was dialed, is
\* closed; a closed handle stays closed, and a Close of a handle the other
\* task already closed changes nothing but the position of the closing task.
ResourceDiscipline ==
    /\ [](\A i \in Sessions :
            AllTasksOver(sess[i]) =>
                (sess[i].front = "closed" /\ sess[i].back \in {"nil", "closed"}))
    /\ [][\A i \in Sessions :
            /\ sess[i].front = "closed" => sess'[i].front = "closed"
            /\ sess[i].back = "closed" => sess'[i].back = "closed"
            /\ \A t \in Tasks :
                 (\/ sess[i][Pc(t)] = "closeBack" /\ sess[i].back = "closed"
                  \/ sess[i][Pc(t)] = "closeFront" /\ sess[i].front = "closed")
                 /\ sess'[i][Pc(t)] # sess[i][Pc(t)]
                 => sess'[i] = [sess[i] EXCEPT ![Pc(t)] = sess'[i][Pc(t)],
                                                !.ret = sess'[i].ret]]_vars

\* both tasks have closed backendConn, one after the other, and both are
\* about to close listenConn, which is still open
ResourceDisciplineWitness ==
    \E i \in Sessions :
        /\ sess[i].pcG = "closeFront" /\ sess[i].pcS = "closeFront"
        /\ sess[i].back = "closed" /\ sess[i].front = "open"

\* the positions of a task after its copy loop
AfterLoop == {"closeBack", "closeFront", "done"}

\* C16 -- no retry: a Session attempts at most one backend dial, its serving
\* task never goes back to the dial once past it, and a task whose copy loop
\* has ended never reads or writes again and nothing is dialed for it: it
\* only goes on to its closes and its end.
NoRetry ==
    /\ [](\A i \in Sessions : sess[i].dials <= 1)
    /\ [][\A i \in Sessions :
            /\ sess[i].pcS \notin {"serve", "dial"} =>
                  /\ sess'[i].pcS \notin {"serve", "dial"}
                  /\ sess'[i].dials = sess[i].dials
            /\ \A t \in Tasks :
                  sess[i][Pc(t)] \in AfterLoop => sess'[i][Pc(t)] \in AfterLoop
            /\ AllTasksOver(sess[i]) => sess'[i] = sess[i]]_vars

\* a Session that dialed once is over after a write of the proxy hit a
\* connection its peer had closed
NoRetryWitness ==
    \E i \in Sessions :
        /\ SessionTerminated(sess[i]) /\ sess[i].dials = 1
        /\ (sess[i].fReset \/ sess[i].bReset)

\* how often Start has read the root file and the server key pair and built
\* the listener's tls.Config
ServerRoleLoads == IF config.listenProto = "tls" /\ proc # "init" THEN 1 ELSE 0

RECURSIVE LoadsUpTo(_)
LoadsUpTo(n) == IF n = 0 THEN 0 ELSE sess[n].loads + LoadsUpTo(n - 1)

\* how often the serving calls have read the root file and the client key
\* pair and built the dialer's tls.Config
ClientRoleLoads == LoadsUpTo(Len(sess))

\* C17 as stated -- the TrustContext of each role is derived once per
\* process: whatever the number of accepted connections, the files are
\* loaded at most once for the server role and at most once for the client
\* role.
TrustContextOnce == ServerRoleLoads <= 1 /\ ClientRoleLoads <= 1

RECURSIVE DialsUpTo(_)
DialsUpTo(n) == IF n = 0 THEN 0 ELSE sess[n].dials + DialsUpTo(n - 1)

\* the Sessions whose backend handle is open
OpenBackends == {i \in Sessions : sess[i].back = "open"}

\* the Sessions that have not terminated
LiveSessions == {i \in Sessions : ~AllTasksOver(sess[i])}

\* C18 -- Session pairing: the number of backend connections ever dialed is
\* at most the number of front connections accepted, and the number of open
\* backend handles is at most the number of Sessions that have not
\* terminated (each open backend handle belongs to such a Session).
SessionPairing ==
    /\ DialsUpTo(Len(sess)) <= Len(sess)
    /\ Cardinality(OpenBackends) <= Cardinality(LiveSessions)
    /\ OpenBackends \subseteq LiveSessions

\* two connections were accepted and a backend dialed for each; one Session
\* has terminated and the backend handle of the other is open
SessionPairingWitness ==
    /\ Len(sess) = 2 /\ DialsUpTo(Len(sess)) = 2
    /\ Cardinality(OpenBackends) = 1 /\ Cardinality(LiveSessions) = 1

\* log.Fatalf of the task read of connection c ended the test backend
KilledByRead(c) ==
    /\ harness.hproc = "exited"
    /\ harness.exitAt = "read" /\ harness.exitConn = c

\* read and write of the connection are over and the connection is closed
HStopped(r) == r.pcR = "done" /\ r.pcW = "done" /\ r.closed

\* a task about to send on quit finds room in the channel, and the
\* connection is closed once write is over
QuitAndClose(r) ==
    /\ (r.pcR = "sendQuit" \/ r.pcW = "sendQuit") => r.quit < QuitCap
    /\ r.quit <= QuitCap
    /\ r.pcW = "done" => r.closed

\* C19 as stated -- shutdown of a connection of the test backend: once read
\* returned end-of-stream or a Write failed, the tasks of the connection do
\* not end the process, the connection is closed when write is over, and a
\* send on quit never blocks.
HarnessShutdown ==
    \A c \in HConns :
        /\ QuitAndClose(harness.conns[c])
        /\ (harness.conns[c].eof \/ harness.conns[c].wfail) => ~KilledByRead(c)

\* C19, amended -- a send on quit never blocks and the connection is closed
\* once write is over; a connection whose read returned end-of-stream never
\* ends the process; and once read returned end-of-stream or a Write
\* failed, read and write both stop with the connection closed, unless the
\* process has ended: which it does, by log.Fatalf in read, when a Write
\* failed and read does not return end-of-stream before its Read fails.
HarnessShutdownUnlessReading ==
    /\ [](\A c \in HConns :
            /\ QuitAndClose(harness.conns[c])
            /\ harness.conns[c].eof => ~KilledByRead(c))
    /\ []<>(\/ harness.hproc = "exited"
            \/ \A c \in HConns :
                 (harness.conns[c].eof \/ harness.conns[c].wfail)
                     => HStopped(harness.conns[c]))

\* read returned end-of-stream and sent on quit, a Write failed and write
\* sent on quit too, both tasks are over, the connection is closed and the
\* process runs, with a second connection accepted
HarnessShutdownWitness ==
    /\ harness.hproc = "running"
    /\ Len(harness.conns) = 2
    /\ \E c \in HConns :
         /\ harness.conns[c].eof /\ harness.conns[c].wfail
         /\ harness.conns[c].quit = QuitCap
         /\ HStopped(harness.conns[c])

====
